---------------------------- MODULE Spec2Model ----------------------------
(***************************************************************************)
(* Reborncloud Groq Bot: the /api/models handler (pages/_app.tsx, second   *)
(* half), the model table (types/openai.ts), the chat relay, the           *)
(* conversation export/import and the deployment shell scripts.            *)
(*                                                                         *)
(* Strings whose characters matter (model ids and names) are sequences of  *)
(* one-character strings, so that String.includes and String.replace are   *)
(* computed as the code computes them.                                     *)
(***************************************************************************)
EXTENDS Integers, Sequences, FiniteSets, TLC

VARIABLES env, mpc, request, bearer, fetches, upstream, resp, handled,
          previous,
          cpc, chat, chatResp, upstreamStream, delivered,
          dpc, argv, flags, executed, exitStatus,
          store, exportFile, exported, spc,
          vpc, dependencies, ran, exit_code, summary, verifyStatus,
          lpc, attempt, curls, accessible

modelsVars ==
  <<env, mpc, request, bearer, fetches, upstream, resp, handled, previous>>
chatVars == <<cpc, chat, chatResp, upstreamStream, delivered>>
deployVars == <<dpc, argv, flags, executed, exitStatus>>
storeVars == <<store, exportFile, exported, spc>>
verifyVars == <<vpc, dependencies, ran, exit_code, summary, verifyStatus>>
domainVars == <<lpc, attempt, curls, accessible>>
vars == <<modelsVars, chatVars, deployVars, storeVars, verifyVars, domainVars>>

(***************************************************************************)
(* Bounds of the model.                                                    *)
(***************************************************************************)
MaxList == 3
MaxLongList == 6
MaxRequests == 2

(***************************************************************************)
(* types/openai.ts: the model table.                                       *)
(***************************************************************************)
GPT_3_5 == <<"g","p","t","-","3",".","5","-","t","u","r","b","o">>
GPT_4 == <<"g","p","t","-","4">>
LLAMA_3_1_8B == <<"l","l","a","m","a","-","3",".","1","-","8","b","-","i","n","s","t","a","n","t">>
LLAMA_3_3_70B == <<"l","l","a","m","a","-","3",".","3","-","7","0","b","-","v","e","r","s","a","t","i","l","e">>
GEMMA2_9B == <<"g","e","m","m","a","2","-","9","b","-","i","t">>
COMPOUND_BETA == <<"c","o","m","p","o","u","n","d","-","b","e","t","a">>

Name_GPT_3_5 == <<"G","P","T","-","3",".","5">>
Name_GPT_4 == <<"G","P","T","-","4">>
Name_LLAMA_3_1_8B == <<"L","l","a","m","a"," ","3",".","1"," ","8","B"," ","(","F","a","s","t",")">>
Name_LLAMA_3_3_70B == <<"L","l","a","m","a"," ","3",".","3"," ","7","0","B"," ","(","P","o","w","e","r","f","u","l",")">>
Name_GEMMA2_9B == <<"G","e","m","m","a"," ","2"," ","9","B">>
Name_COMPOUND_BETA == <<"C","o","m","p","o","u","n","d"," ","B","e","t","a"," ","(","G","r","o","q",")">>

\* Object.entries(OpenAIModelID): the enum's values in declaration order.
OpenAIModelID == <<GPT_3_5, GPT_4, LLAMA_3_1_8B, LLAMA_3_3_70B, GEMMA2_9B, COMPOUND_BETA>>

AllowList == {OpenAIModelID[i] : i \in 1..Len(OpenAIModelID)}

\* interface OpenAIModel: the four fields of a model record.
OpenAIModel(id, name, maxLength, tokenLimit) ==
  [id |-> id, name |-> name, maxLength |-> maxLength, tokenLimit |-> tokenLimit]

\* OpenAIModels: Record<OpenAIModelID, OpenAIModel>.
OpenAIModels(id) ==
  CASE id = GPT_3_5 -> OpenAIModel(GPT_3_5, Name_GPT_3_5, 12000, 4000)
    [] id = GPT_4 -> OpenAIModel(GPT_4, Name_GPT_4, 24000, 8000)
    [] id = LLAMA_3_1_8B -> OpenAIModel(LLAMA_3_1_8B, Name_LLAMA_3_1_8B, 120000, 131072)
    [] id = LLAMA_3_3_70B -> OpenAIModel(LLAMA_3_3_70B, Name_LLAMA_3_3_70B, 120000, 131072)
    [] id = GEMMA2_9B -> OpenAIModel(GEMMA2_9B, Name_GEMMA2_9B, 24000, 8192)
    [] id = COMPOUND_BETA -> OpenAIModel(COMPOUND_BETA, Name_COMPOUND_BETA, 120000, 131072)

(***************************************************************************)
(* String helpers of the handler, on sequences of characters.              *)
(***************************************************************************)
Str_llama == <<"l","l","a","m","a">>
Str_gemma == <<"g","e","m","m","a">>
Str_compound == <<"c","o","m","p","o","u","n","d">>
Str_gpt == <<"g","p","t">>

\* String.prototype.includes
includes(s, sub) ==
  \E i \in 0..(Len(s) - Len(sub)) : SubSeq(s, i + 1, i + Len(sub)) = sub

\* \w of a JavaScript regular expression
WordChars ==
  {"a","b","c","d","e","f","g","h","i","j","k","l","m","n","o","p","q","r",
   "s","t","u","v","w","x","y","z","A","B","C","D","E","F","G","H","I","J",
   "K","L","M","N","O","P","Q","R","S","T","U","V","W","X","Y","Z","0","1",
   "2","3","4","5","6","7","8","9","_"}

\* String.prototype.toUpperCase on one character
toUpperCase(c) ==
  CASE c = "a" -> "A" [] c = "b" -> "B" [] c = "c" -> "C" [] c = "d" -> "D"
    [] c = "e" -> "E" [] c = "f" -> "F" [] c = "g" -> "G" [] c = "h" -> "H"
    [] c = "i" -> "I" [] c = "j" -> "J" [] c = "k" -> "K" [] c = "l" -> "L"
    [] c = "m" -> "M" [] c = "n" -> "N" [] c = "o" -> "O" [] c = "p" -> "P"
    [] c = "q" -> "Q" [] c = "r" -> "R" [] c = "s" -> "S" [] c = "t" -> "T"
    [] c = "u" -> "U" [] c = "v" -> "V" [] c = "w" -> "W" [] c = "x" -> "X"
    [] c = "y" -> "Y" [] c = "z" -> "Z" [] OTHER -> c

\* id.replace(/-/g, ' ')
ReplaceDashes(s) == [i \in 1..Len(s) |-> IF s[i] = "-" THEN " " ELSE s[i]]

\* s.replace(/\b\w/g, l => l.toUpperCase())
CapitalizeWords(s) ==
  [i \in 1..Len(s) |->
     IF s[i] \in WordChars /\ (i = 1 \/ s[i - 1] \notin WordChars)
     THEN toUpperCase(s[i]) ELSE s[i]]

\* the name the dynamic branch gives a discovered model
DynamicName(id) == CapitalizeWords(ReplaceDashes(id))

(***************************************************************************)
(* The upstream provider's answers to GET /v1/models.                      *)
(***************************************************************************)
Id_gpt_4o == <<"g","p","t","-","4","o">>
Id_llama_guard == <<"l","l","a","m","a","-","g","u","a","r","d">>
Id_whisper == <<"w","h","i","s","p","e","r">>

\* An element of the upstream array: an object with a string id, an object
\* whose id is undefined, or null.
ObjEntry(id) == [kind |-> "obj", id |-> id]
NoIdEntry == [kind |-> "noid", id |-> <<>>]
NullEntry == [kind |-> "null", id |-> <<>>]

ShortEntries ==
  {ObjEntry(GPT_4), ObjEntry(GEMMA2_9B), ObjEntry(Id_gpt_4o),
   ObjEntry(Id_llama_guard), ObjEntry(Id_whisper), NoIdEntry, NullEntry}

LongEntries == {ObjEntry(Id_gpt_4o), ObjEntry(Id_llama_guard), ObjEntry(Id_whisper)}

SeqsUpTo(S, lo, hi) == UNION {[1..n -> S] : n \in lo..hi}

UpstreamLists ==
  SeqsUpTo(ShortEntries, 0, MaxList) \cup SeqsUpTo(LongEntries, MaxList + 1, MaxLongList)

Undefined == "undefined"

\* response.body and response.headers of an answer the handler hands on
RawBodies == {"body-a", "body-b"}
HeaderSets == {"headers-a", "headers-b"}

NoAnswer ==
  [kind |-> "none", status |-> 0, body |-> "none", data |-> <<>>, raw |-> "-",
   headers |-> "-"]

\* fetch() rejects (network failure), or resolves with a status and a body:
\* a body that is no JSON, a JSON object without a usable data field, a bare
\* array, or an object whose data field is the array.
AnswersOver(lists) ==
  {[NoAnswer EXCEPT !.kind = "neterr"]}
  \cup {[NoAnswer EXCEPT !.kind = "resp", !.status = 401, !.body = "object",
                         !.raw = r, !.headers = h] :
          r \in RawBodies, h \in HeaderSets}
  \cup {[NoAnswer EXCEPT !.kind = "resp", !.status = s, !.body = "object"] :
          s \in {429, 500}}
  \cup {[NoAnswer EXCEPT !.kind = "resp", !.status = 200, !.body = b] :
          b \in {"unparsable", "object"}}
  \cup {[NoAnswer EXCEPT !.kind = "resp", !.status = 200, !.body = b, !.data = d] :
          b \in {"bare", "wrapped"}, d \in lists}

UpstreamAnswers == AnswersOver(UpstreamLists)

(***************************************************************************)
(* The /api/models handler.                                                *)
(***************************************************************************)
\* `Bearer ${key ? key : process.env.OPENAI_API_KEY}`: undefined and the
\* empty string are falsy.
\* a choice written key ?? process.env.OPENAI_API_KEY keeps an empty key
BearerTokenNullish(key, envKey) == IF key # Undefined THEN key ELSE envKey

BearerToken(key, envKey) == IF key # Undefined /\ key # "" THEN key ELSE envKey

\* a comparison by String.includes instead of ===
RECURSIVE SomeIdIncludes(_, _)
SomeIdIncludes(data, value) ==
  IF data = <<>> THEN "false"
  ELSE IF Head(data).kind = "null" THEN "throw"
  ELSE IF Head(data).kind = "obj" /\ includes(Head(data).id, value) THEN "true"
  ELSE SomeIdIncludes(Tail(data), value)

\* modelsData.some((model) => model.id === value): "true", "false", or
\* "throw" when a null element is reached before a match.
RECURSIVE SomeIdEquals(_, _)
SomeIdEquals(data, value) ==
  IF data = <<>> THEN "false"
  ELSE IF Head(data).kind = "null" THEN "throw"
  ELSE IF Head(data).kind = "obj" /\ Head(data).id = value THEN "true"
  ELSE SomeIdEquals(Tail(data), value)

\* a loop over the upstream list that pushes the table entry of every
\* allow-listed element as it meets it
PredefinedLoopOverUpstream(i, data, models) ==
  LET listed == SelectSeq(data, LAMBDA e : e.kind = "obj" /\ e.id \in AllowList)
  IN [threw |-> \E n \in 1..Len(data) : data[n].kind = "null",
      models |-> models \o [n \in 1..Len(listed) |-> OpenAIModels(listed[n].id)]]

\* for (const [key, value] of Object.entries(OpenAIModelID)) { ... }
RECURSIVE PredefinedLoop(_, _, _)
PredefinedLoop(i, data, models) ==
  IF i > Len(OpenAIModelID) THEN [threw |-> FALSE, models |-> models]
  ELSE LET modelExists == SomeIdEquals(data, OpenAIModelID[i])
       IN IF modelExists = "throw" THEN [threw |-> TRUE, models |-> models]
          ELSE IF modelExists = "true"
          THEN PredefinedLoop(i + 1, data, Append(models, OpenAIModels(OpenAIModelID[i])))
          ELSE PredefinedLoop(i + 1, data, models)

\* the filter predicate of the dynamic branch
DynamicMatch(id) ==
  \/ includes(id, Str_llama)
  \/ includes(id, Str_gemma)
  \/ includes(id, Str_compound)
  \/ includes(id, Str_gpt)

\* a filter written with optional chaining (model.id?.includes) never throws
FilterNeverThrows(data) == FALSE

\* model.id.includes(...) throws a TypeError on an element without a string id
FilterThrows(data) == \E i \in 1..Len(data) : data[i].kind # "obj"

DynamicLimit == 5

\* a branch that returns every match
SliceEverything(s) == s

\* .slice(0, 5)
SliceLimit(s) == SubSeq(s, 1, IF Len(s) < DynamicLimit THEN Len(s) ELSE DynamicLimit)

\* a map that leaves the limits out of a discovered model
DynamicModelWithoutLimits(e) == [id |-> e.id, name |-> DynamicName(e.id)]

\* .map((model) => ({ id, name, maxLength: 120000, tokenLimit: 131072 }))
DynamicModel(e) == OpenAIModel(e.id, DynamicName(e.id), 120000, 131072)

\* modelsData.filter(...).slice(0, 5).map(...)
AvailableModels(data) ==
  LET filtered == SelectSeq(data, LAMBDA e : DynamicMatch(e.id))
      sliced == SliceLimit(filtered)
  IN [i \in 1..Len(sliced) |-> DynamicModel(sliced[i])]

\* the catch block's fallbackModels
FallbackModels ==
  << OpenAIModel(LLAMA_3_1_8B, Name_LLAMA_3_1_8B, 120000, 131072),
     OpenAIModel(LLAMA_3_3_70B, Name_LLAMA_3_3_70B, 120000, 131072),
     OpenAIModel(GEMMA2_9B, Name_GEMMA2_9B, 24000, 8192) >>

NoResponse ==
  [status |-> 0, kind |-> "none", models |-> <<>>, raw |-> "-", headers |-> "-"]

\* new Response(JSON.stringify(models), { status: 200 })
JsonResponse(models) ==
  [NoResponse EXCEPT !.status = 200, !.kind = "json", !.models = models]

\* a catch block that answers with an error instead of the fallback list
CatchBlockError == [NoResponse EXCEPT !.status = 500, !.kind = "json"]

\* catch (error) { ... return new Response(JSON.stringify(fallbackModels), { status: 200 }) }
CatchBlock == JsonResponse(FallbackModels)

\* new Response(response.body, { status: 500, headers: response.headers })
UpstreamBodyResponse(u) ==
  [NoResponse EXCEPT !.status = 500, !.kind = "upstream", !.raw = u.raw,
                     !.headers = u.headers]

\* The try block after fetch resolved or rejected: [threw, resp].
Thrown == [threw |-> TRUE, resp |-> NoResponse]
Returned(r) == [threw |-> FALSE, resp |-> r]

\* lines 69-104: response.json() and the two model-building branches
BuildModels(u) ==
  IF u.body = "unparsable" THEN Thrown
  ELSE IF u.body = "object" THEN Thrown
  ELSE LET modelsData == u.data
           predefined == PredefinedLoop(1, modelsData, <<>>)
       IN IF predefined.threw THEN Thrown
          ELSE IF Len(predefined.models) = 0
          THEN IF FilterThrows(modelsData) THEN Thrown
               ELSE Returned(JsonResponse(AvailableModels(modelsData)))
          ELSE Returned(JsonResponse(predefined.models))

\* a try block that hands every upstream error status on to the caller
TryBlockPropagatingStatus(u) ==
  IF u.kind = "neterr" THEN Thrown
  ELSE IF u.status # 200
  THEN Returned([NoResponse EXCEPT !.status = u.status, !.kind = "upstream",
                                   !.raw = u.raw, !.headers = u.headers])
  ELSE BuildModels(u)

\* a try block without the 401 branch: a 401 throws like any other error
TryBlockThrowingOn401(u) ==
  IF u.kind = "neterr" THEN Thrown
  ELSE IF u.status # 200 THEN Thrown
  ELSE BuildModels(u)

\* lines 45-104: what the try block does with the upstream's answer
TryBlock(u) ==
  IF u.kind = "neterr" THEN Thrown
  ELSE IF u.status = 401 THEN Returned(UpstreamBodyResponse(u))
  ELSE IF u.status # 200 THEN Thrown
  ELSE BuildModels(u)

\* the handler's response once fetch has settled
HandlerResponse(u) == IF TryBlock(u).threw THEN CatchBlock ELSE TryBlock(u).resp

RequestKeys == {Undefined, "", "sk-user"}
EnvKeys == {Undefined, "sk-env"}
NoRequest == [parsed |-> FALSE, key |-> Undefined]

\* const { key } = await req.json(): the body parses to an object with a key
\* (possibly undefined or empty), or parsing throws and the catch block answers.
MReceive ==
  /\ mpc = "idle"
  /\ handled < MaxRequests
  /\ \/ \E k \in RequestKeys :
          /\ request' = [parsed |-> TRUE, key |-> k]
          /\ mpc' = "parsed"
          /\ resp' = NoResponse
     \/ /\ request' = [parsed |-> FALSE, key |-> Undefined]
        /\ mpc' = "responded"
        /\ resp' = CatchBlock
  /\ bearer' = Undefined
  /\ fetches' = 0
  /\ upstream' = NoAnswer
  /\ UNCHANGED <<env, handled, previous>>
  /\ UNCHANGED <<chatVars, deployVars, storeVars, verifyVars, domainVars>>

NoExchange == [request |-> NoRequest, upstream |-> NoAnswer, resp |-> NoResponse]

\* a handler that keeps the upstream's last answer in a module-level variable
\* and serves the next request from it
MFetchCached(answers) ==
  /\ mpc = "parsed"
  /\ bearer' = BearerToken(request.key, env)
  /\ IF previous.upstream.kind = "resp"
     THEN upstream' = previous.upstream /\ UNCHANGED fetches
     ELSE fetches' = fetches + 1 /\ \E u \in answers : upstream' = u
  /\ mpc' = "fetched"
  /\ UNCHANGED <<env, request, resp, handled, previous>>
  /\ UNCHANGED <<chatVars, deployVars, storeVars, verifyVars, domainVars>>

\* await fetch(`${OPENAI_API_HOST}/v1/models`, { headers: ... }), the upstream
\* answering with one of `answers`
MFetchFrom(answers) ==
  /\ mpc = "parsed"
  /\ bearer' = BearerToken(request.key, env)
  /\ fetches' = fetches + 1
  /\ \E u \in answers : upstream' = u
  /\ mpc' = "fetched"
  /\ UNCHANGED <<env, request, resp, handled, previous>>
  /\ UNCHANGED <<chatVars, deployVars, storeVars, verifyVars, domainVars>>

MFetch == MFetchFrom(UpstreamAnswers)

\* a handler that fetches again when the first attempt threw
MRespondRetrying ==
  /\ mpc = "fetched"
  /\ IF TryBlock(upstream).threw /\ fetches < 2
     THEN mpc' = "parsed" /\ UNCHANGED resp
     ELSE mpc' = "responded" /\ resp' = HandlerResponse(upstream)
  /\ UNCHANGED <<env, request, bearer, fetches, upstream, handled, previous>>
  /\ UNCHANGED <<chatVars, deployVars, storeVars, verifyVars, domainVars>>

\* the rest of the try block and the catch block
MRespond ==
  /\ mpc = "fetched"
  /\ resp' = HandlerResponse(upstream)
  /\ mpc' = "responded"
  /\ UNCHANGED <<env, request, bearer, fetches, upstream, handled, previous>>
  /\ UNCHANGED <<chatVars, deployVars, storeVars, verifyVars, domainVars>>

\* the response is sent; the handler keeps nothing of the request
MComplete ==
  /\ mpc = "responded"
  /\ mpc' = "idle"
  /\ handled' = handled + 1
  /\ request' = NoRequest
  /\ bearer' = Undefined
  /\ fetches' = 0
  /\ upstream' = NoAnswer
  /\ resp' = NoResponse
  /\ UNCHANGED env
  /\ UNCHANGED <<chatVars, deployVars, storeVars, verifyVars, domainVars>>

MDone == MComplete /\ UNCHANGED previous

\* the same, with the caller keeping the exchange it has just seen, to
\* compare the next one with
MDeliver ==
  /\ MComplete
  /\ previous' = [request |-> request, upstream |-> upstream, resp |-> resp]

\* the upstream's answers in the runs that compare successive exchanges
MaxObservedList == 1
ObservedEntries == {ObjEntry(GPT_4), ObjEntry(Id_llama_guard), NoIdEntry}
ObservedAnswers == AnswersOver(SeqsUpTo(ObservedEntries, 0, MaxObservedList))

MFetchObserved == MFetchFrom(ObservedAnswers)

NextSuccessive == MReceive \/ MFetchObserved \/ MRespond \/ MDeliver

NextModels == MReceive \/ MFetch \/ MRespond \/ MDone

(***************************************************************************)
(* The chat relay (/api/chat).  Its source file is not among the           *)
(* repository files at hand: the handler is modelled from the design       *)
(* document, and the two snippets of it quoted in PROJECT_STRUCTURE.md     *)
(* (token limit enforcement, error handling) are modelled as quoted.       *)
(***************************************************************************)
MaxMessages == 3
MaxChunks == 3
MaxChats == 1

TokenMargin == 1000

\* estimated token counts of a message, around the limits' boundaries
TokenCounts == {1000, 3000, 3001, 7000}

\* model.tokenLimit of the request's model (types/openai.ts values)
TokenLimits == {4000, 8000, 131072}

Bytes == {0, 1}

NoChat ==
  [messages |-> <<>>, tokenLimit |-> 0, messagesToSend |-> <<>>, attempts |-> 0,
   served |-> 0]
NoChatResponse == [status |-> 0, statusText |-> ""]
NoStream == [status |-> 0, body |-> <<>>, read |-> 0]

\* messages[i] carries its position in the request as its identity
ChatMessages ==
  UNION {{[i \in 1..n |-> [id |-> i, tokens |-> f[i]]] : f \in [1..n -> TokenCounts]} :
           n \in 0..MaxMessages}

\* a limit test that leaves the margin out
ExceedsLimitNoMargin(tokenCount, tokens, tokenLimit) ==
  tokenCount + tokens > tokenLimit

\* a limit test that also rejects a message that fits exactly
ExceedsLimitOrEqual(tokenCount, tokens, tokenLimit) ==
  tokenCount + tokens + TokenMargin >= tokenLimit

\* if (tokenCount + tokens.length + 1000 > model.tokenLimit)
ExceedsLimit(tokenCount, tokens, tokenLimit) ==
  tokenCount + tokens + TokenMargin > tokenLimit

RECURSIVE TrimLoop(_, _, _, _, _)

\* a loop that skips the message that does not fit and goes on to older ones
OnLimitExceededContinue(i, messages, tokenCount, messagesToSend, tokenLimit) ==
  TrimLoop(i - 1, messages, tokenCount, messagesToSend, tokenLimit)

\* { break; }
OnLimitExceeded(i, messages, tokenCount, messagesToSend, tokenLimit) ==
  messagesToSend

\* from the most recent message backward: stop at the first message that
\* does not fit, else count it and put it in front of the kept ones
TrimLoop(i, messages, tokenCount, messagesToSend, tokenLimit) ==
  IF i < 1 THEN messagesToSend
  ELSE IF ExceedsLimit(tokenCount, messages[i].tokens, tokenLimit)
  THEN OnLimitExceeded(i, messages, tokenCount, messagesToSend, tokenLimit)
  ELSE TrimLoop(i - 1, messages, tokenCount + messages[i].tokens,
                <<messages[i]>> \o messagesToSend, tokenLimit)

TrimMessages(messages, tokenLimit) ==
  TrimLoop(Len(messages), messages, 0, <<>>, tokenLimit)

\* the upstream's answers to the forwarded chat request
ChatErrors ==
  {[type |-> "OpenAIError", status |-> 401, message |-> "Invalid API Key"],
   [type |-> "OpenAIError", status |-> 429, message |-> "Too Many Requests"],
   [type |-> "Error", status |-> 0, message |-> "fetch failed"]}

\* a handler that hands the upstream's status on to the caller
ChatCatchPropagate(error) ==
  [status |-> IF error.status = 0 THEN 500 ELSE error.status,
   statusText |-> error.message]

\* catch (error) { if (error instanceof OpenAIError) return new Response('Error',
\* { status: 500, statusText: error.message }) ... }
ChatCatch(error) ==
  IF error.type = "OpenAIError"
  THEN [status |-> 500, statusText |-> error.message]
  ELSE [status |-> 500, statusText |-> ""]

ChatStreams == SeqsUpTo(Bytes, 0, MaxChunks)

\* a relay that drops a chunk it takes for an empty event
RelayChunkDropping(out, chunk) == IF chunk = 0 THEN out ELSE Append(out, chunk)

\* the chunk read from the upstream body is written to the response body
RelayChunk(out, chunk) == Append(out, chunk)

\* the request is parsed and its history trimmed
CReceive ==
  /\ cpc = "idle"
  /\ chat.served < MaxChats
  /\ \E m \in ChatMessages, l \in TokenLimits :
       chat' = [chat EXCEPT !.messages = m, !.tokenLimit = l,
                            !.messagesToSend = TrimMessages(m, l)]
  /\ cpc' = "forward"
  /\ chatResp' = NoChatResponse
  /\ upstreamStream' = NoStream
  /\ delivered' = <<>>
  /\ UNCHANGED <<modelsVars, deployVars, storeVars, verifyVars, domainVars>>

\* the single forwarded request: it fails (rejected key, other status,
\* network) and the catch block answers, or the upstream starts streaming
CForward ==
  /\ cpc = "forward"
  /\ chat' = [chat EXCEPT !.attempts = chat.attempts + 1]
  /\ \/ \E e \in ChatErrors :
          /\ chatResp' = ChatCatch(e)
          /\ upstreamStream' = [status |-> e.status, body |-> <<>>, read |-> 0]
          /\ cpc' = "responded"
     \/ \E s \in ChatStreams :
          /\ chatResp' = [status |-> 200, statusText |-> ""]
          /\ upstreamStream' = [status |-> 200, body |-> s, read |-> 0]
          /\ cpc' = "streaming"
  /\ UNCHANGED delivered
  /\ UNCHANGED <<modelsVars, deployVars, storeVars, verifyVars, domainVars>>

\* one chunk of the upstream body is passed to the caller
CRelay ==
  /\ cpc = "streaming"
  /\ upstreamStream.read < Len(upstreamStream.body)
  /\ delivered' = RelayChunk(delivered, upstreamStream.body[upstreamStream.read + 1])
  /\ upstreamStream' = [upstreamStream EXCEPT !.read = upstreamStream.read + 1]
  /\ UNCHANGED <<cpc, chat, chatResp>>
  /\ UNCHANGED <<modelsVars, deployVars, storeVars, verifyVars, domainVars>>

\* the upstream body ends and the response body is closed
CClose ==
  /\ cpc = "streaming"
  /\ upstreamStream.read = Len(upstreamStream.body)
  /\ cpc' = "responded"
  /\ UNCHANGED <<chat, chatResp, upstreamStream, delivered>>
  /\ UNCHANGED <<modelsVars, deployVars, storeVars, verifyVars, domainVars>>

\* the response is complete; nothing of the request is kept
CDone ==
  /\ cpc = "responded"
  /\ cpc' = "idle"
  /\ chat' = [NoChat EXCEPT !.served = chat.served + 1]
  /\ chatResp' = NoChatResponse
  /\ upstreamStream' = NoStream
  /\ delivered' = <<>>
  /\ UNCHANGED <<modelsVars, deployVars, storeVars, verifyVars, domainVars>>

NextChat == CReceive \/ CForward \/ CRelay \/ CClose \/ CDone

(***************************************************************************)
(* scripts/deploy-secure.sh: argument parsing and main.                    *)
(***************************************************************************)
MaxArgs == 2

ArgWords ==
  {"--skip-infra", "--skip-monitoring", "--skip-argocd", "--domain", "--help",
   "--verbose", "example.org"}

CommandLines == SeqsUpTo(ArgWords, 0, MaxArgs)

\* the configuration block: DOMAIN (field domain) is set, the SKIP_* variables are not
InitialFlags ==
  [SKIP_INFRA |-> FALSE, SKIP_MONITORING |-> FALSE, SKIP_ARGOCD |-> FALSE,
   domain |-> "clone.reborncloud.online"]

\* main(): the deployment steps in the order main calls them
MainSteps ==
  << "check_prerequisites", "scan_secrets", "build_secure_image", "scan_image",
     "deploy_infrastructure", "configure_kubectl", "deploy_application",
     "run_health_checks", "verify_domain_ssl", "setup_monitoring", "setup_argocd",
     "run_smoke_tests", "display_summary" >>

\* What a step can end with.
\*   "ok"    it returns 0;
\*   "warn"  it logs a warning and returns 0 (a failure tested by if or ||);
\*   "fail"  it logs an error and runs exit 1;
\*   "error" one of its commands fails outside a test and set -e ends the
\*           script with that command's status.
StepResults(step) ==
  CASE step = "check_prerequisites" -> {"ok", "fail"}
    [] step = "scan_secrets" -> {"ok", "fail"}
    [] step = "build_secure_image" -> {"ok", "error"}
    [] step = "scan_image" -> {"ok", "fail", "error"}
    [] step = "deploy_infrastructure" -> {"ok", "fail", "error"}
    [] step = "configure_kubectl" -> {"ok", "fail", "error"}
    [] step = "deploy_application" -> {"ok", "warn", "error"}
    [] step = "run_health_checks" -> {"ok", "warn", "fail", "error"}
    [] step = "verify_domain_ssl" -> {"ok", "warn"}
    [] step = "setup_monitoring" -> {"ok", "error"}
    [] step = "setup_argocd" -> {"ok", "error"}
    [] step = "run_smoke_tests" -> {"ok", "fail"}
    [] OTHER -> {"ok"}

\* the status of a command that fails: any non-zero value
CommandFailureStatuses == {1, 2}

\* a script in which no failure ends the run
EndsScriptNever(r) == FALSE

\* a script in which a warning ends the run as well
EndsScriptOnWarning(r) == r # "ok"

\* exit 1 in the step, or set -e on a failing command
EndsScript(r) == r \in {"fail", "error"}

Ran(step) == \E i \in 1..Len(executed) : executed[i].step = step

DInvoke ==
  /\ dpc = "init"
  /\ \E a \in CommandLines : argv' = a
  /\ dpc' = "parse"
  /\ UNCHANGED <<flags, executed, exitStatus>>
  /\ UNCHANGED <<modelsVars, chatVars, storeVars, verifyVars, domainVars>>

\* one turn of  while [[ $# -gt 0 ]]; do case $1 in ... esac; done
DParseArg ==
  /\ dpc = "parse"
  /\ argv # <<>>
  /\ LET arg == Head(argv) IN
       CASE arg = "--skip-infra" ->
              /\ flags' = [flags EXCEPT !.SKIP_INFRA = TRUE]
              /\ argv' = Tail(argv)
              /\ UNCHANGED <<dpc, exitStatus>>
         [] arg = "--skip-monitoring" ->
              /\ flags' = [flags EXCEPT !.SKIP_MONITORING = TRUE]
              /\ argv' = Tail(argv)
              /\ UNCHANGED <<dpc, exitStatus>>
         [] arg = "--skip-argocd" ->
              /\ flags' = [flags EXCEPT !.SKIP_ARGOCD = TRUE]
              /\ argv' = Tail(argv)
              /\ UNCHANGED <<dpc, exitStatus>>
         [] arg = "--domain" ->
              \* DOMAIN="$2": under set -u a missing $2 ends the script
              IF Len(argv) >= 2
              THEN /\ flags' = [flags EXCEPT !.domain = argv[2]]
                   /\ argv' = Tail(Tail(argv))
                   /\ UNCHANGED <<dpc, exitStatus>>
              ELSE /\ dpc' = "exit"
                   /\ exitStatus' = 1
                   /\ UNCHANGED <<flags, argv>>
         [] arg = "--help" ->
              /\ dpc' = "exit"
              /\ exitStatus' = 0
              /\ UNCHANGED <<flags, argv>>
         [] OTHER ->
              /\ dpc' = "exit"
              /\ exitStatus' = 1
              /\ UNCHANGED <<flags, argv>>
  /\ UNCHANGED executed
  /\ UNCHANGED <<modelsVars, chatVars, storeVars, verifyVars, domainVars>>

\* main "$@" is called once the arguments are consumed
DMainStart ==
  /\ dpc = "parse"
  /\ argv = <<>>
  /\ dpc' = "main"
  /\ UNCHANGED <<argv, flags, executed, exitStatus>>
  /\ UNCHANGED <<modelsVars, chatVars, storeVars, verifyVars, domainVars>>

NextStepIndex == Len(executed) + 1

\* the next step of main runs, whatever the SKIP_* variables hold (main reads
\* none of them); exit 1 ends the script with status 1, a command failing
\* under set -e with the command's status
DStep ==
  /\ dpc = "main"
  /\ NextStepIndex <= Len(MainSteps)
  /\ \E r \in StepResults(MainSteps[NextStepIndex]) :
       /\ executed' = Append(executed, [step |-> MainSteps[NextStepIndex], result |-> r])
       /\ IF EndsScript(r)
          THEN /\ dpc' = "exit"
               /\ IF r = "error"
                  THEN \E st \in CommandFailureStatuses : exitStatus' = st
                  ELSE exitStatus' = 1
          ELSE UNCHANGED <<dpc, exitStatus>>
  /\ UNCHANGED <<argv, flags>>
  /\ UNCHANGED <<modelsVars, chatVars, storeVars, verifyVars, domainVars>>

\* main returns after display_summary and the script ends with status 0
DMainEnd ==
  /\ dpc = "main"
  /\ NextStepIndex > Len(MainSteps)
  /\ dpc' = "exit"
  /\ exitStatus' = 0
  /\ UNCHANGED <<argv, flags, executed>>
  /\ UNCHANGED <<modelsVars, chatVars, storeVars, verifyVars, domainVars>>

\* trap 'log_error "Deployment interrupted"; exit 1' INT TERM
DInterrupt ==
  /\ dpc \in {"parse", "main"}
  /\ dpc' = "exit"
  /\ exitStatus' = 1
  /\ executed' = Append(executed, [step |-> "trap", result |-> "interrupted"])
  /\ UNCHANGED <<argv, flags>>
  /\ UNCHANGED <<modelsVars, chatVars, storeVars, verifyVars, domainVars>>

NextDeploy == DInvoke \/ DParseArg \/ DMainStart \/ DStep \/ DMainEnd \/ DInterrupt

(***************************************************************************)
(* Conversations in browser local storage, their export and import.  The  *)
(* source files are not among the repository files at hand: storage holds  *)
(* JSON text of conversation records, export writes that text to a file    *)
(* and import parses a file back into storage.                             *)
(***************************************************************************)
MaxConversations == 2
MaxHistory == 2

ConversationIds == {"c1", "c2"}
Contents == {"hi", "ok"}

\* JSON.stringify of one conversation, as a sequence of JSON tokens
StringifyConversation(c) == <<"{", c.id, "[">> \o c.messages \o <<"]", "}">>

RECURSIVE Stringify(_)
Stringify(conversations) ==
  IF conversations = <<>> THEN <<>>
  ELSE StringifyConversation(Head(conversations)) \o Stringify(Tail(conversations))

\* the position of the first "]" of a token sequence
RECURSIVE IndexOfClose(_, _)
IndexOfClose(text, i) ==
  IF i > Len(text) THEN 0
  ELSE IF text[i] = "]" THEN i
  ELSE IndexOfClose(text, i + 1)

\* a parser that rebuilds the message array back to front
RECURSIVE ParseReversing(_)
ParseReversing(text) ==
  IF Len(text) < 5 THEN <<>>
  ELSE LET close == IndexOfClose(text, 1)
           ms == SubSeq(text, 4, close - 1)
       IN <<[id |-> text[2],
             messages |-> [i \in 1..Len(ms) |-> ms[Len(ms) + 1 - i]]]>>
          \o ParseReversing(SubSeq(text, close + 2, Len(text)))

\* JSON.parse of an exported history
RECURSIVE Parse(_)
Parse(text) ==
  IF Len(text) < 5 THEN <<>>
  ELSE LET close == IndexOfClose(text, 1)
       IN <<[id |-> text[2], messages |-> SubSeq(text, 4, close - 1)]>>
          \o Parse(SubSeq(text, close + 2, Len(text)))

NoFile == <<"none">>

\* a new, empty conversation is saved
SNewConversation ==
  /\ Len(store) < MaxConversations
  /\ \E id \in ConversationIds :
       /\ \A i \in 1..Len(store) : store[i].id # id
       /\ store' = Append(store, [id |-> id, messages |-> <<>>])
  /\ spc' = "edited"
  /\ UNCHANGED <<exportFile, exported>>
  /\ UNCHANGED <<modelsVars, chatVars, deployVars, verifyVars, domainVars>>

\* a message is appended to a stored conversation
SAddMessage ==
  /\ \E i \in 1..Len(store), m \in Contents :
       /\ Len(store[i].messages) < MaxHistory
       /\ store' = [store EXCEPT ![i].messages = Append(@, m)]
  /\ spc' = "edited"
  /\ UNCHANGED <<exportFile, exported>>
  /\ UNCHANGED <<modelsVars, chatVars, deployVars, verifyVars, domainVars>>

\* all conversations are cleared from storage
SClear ==
  /\ store # <<>>
  /\ store' = <<>>
  /\ spc' = "edited"
  /\ UNCHANGED <<exportFile, exported>>
  /\ UNCHANGED <<modelsVars, chatVars, deployVars, verifyVars, domainVars>>

\* export: the stored history is written to a file
SExport ==
  /\ exportFile' = Stringify(store)
  /\ exported' = store
  /\ spc' = "exported"
  /\ UNCHANGED store
  /\ UNCHANGED <<modelsVars, chatVars, deployVars, verifyVars, domainVars>>

\* import: the file is parsed and its history saved to storage
SImport ==
  /\ exportFile # NoFile
  /\ store' = Parse(exportFile)
  /\ spc' = "imported"
  /\ UNCHANGED <<exportFile, exported>>
  /\ UNCHANGED <<modelsVars, chatVars, deployVars, verifyVars, domainVars>>

NextStore == SNewConversation \/ SAddMessage \/ SClear \/ SExport \/ SImport

(***************************************************************************)
(* Initial state and specifications, one per component.                    *)
(***************************************************************************)
(* scripts/verify-domain.sh                                                *)
(***************************************************************************)

\* main(): the checks in the order main calls them
Checks ==
  <<"check_dns", "check_ssl", "check_connectivity", "check_alb", "check_acm",
    "check_k8s_ingress">>

\* the checks whose failure branch ends with return 1
ReturningChecks == {"check_dns", "check_ssl", "check_connectivity"}

\* How a check can end: reported tells whether it printed its failure line
\* (resolution or connection failed, resource not found), ret is the
\* function's return status, that of the last command it ran.  A check
\* called on the left of || runs with set -e off, so every check runs to
\* its end:
\*   the resource is there and the commands that print its details succeed;
\*   the resource is there and the last of those commands fails;
\*   the failure branch: return 1 in check_dns, check_ssl and
\*   check_connectivity, an echo as last command in the other three.
CheckOutcomes(check) ==
  {[reported |-> FALSE, ret |-> 0]}
    \cup {[reported |-> FALSE, ret |-> st] : st \in CommandFailureStatuses}
    \cup {[reported |-> TRUE, ret |-> IF check \in ReturningChecks THEN 1 ELSE 0]}

\* an assignment of the check's result (exit_code=$?) in place of || exit_code=1
OnCheckReturnAssigning(code, ret) == IF ret # 0 THEN 1 ELSE 0

\* check_x || exit_code=1
OnCheckReturn(code, ret) == IF ret # 0 THEN 1 ELSE code

\* command -v nslookup ... jq || { echo "... not found"; exit 1; }
VDependencies ==
  /\ vpc = "init"
  /\ \E found \in BOOLEAN :
       IF found
       THEN dependencies' = "ok" /\ vpc' = "main" /\ UNCHANGED verifyStatus
       ELSE dependencies' = "missing" /\ vpc' = "exit" /\ verifyStatus' = 1
  /\ UNCHANGED <<ran, exit_code, summary>>
  /\ UNCHANGED <<modelsVars, chatVars, deployVars, storeVars, domainVars>>

\* the next check of main runs, then || exit_code=1
VCheck ==
  /\ vpc = "main"
  /\ Len(ran) < Len(Checks)
  /\ LET check == Checks[Len(ran) + 1] IN
       \E o \in CheckOutcomes(check) :
         /\ ran' = Append(ran, [check |-> check, reported |-> o.reported, ret |-> o.ret])
         /\ exit_code' = OnCheckReturn(exit_code, o.ret)
  /\ UNCHANGED <<vpc, dependencies, summary, verifyStatus>>
  /\ UNCHANGED <<modelsVars, chatVars, deployVars, storeVars, domainVars>>

\* if [[ $exit_code -eq 0 ]]; then echo "All checks passed! ..." else ...
VSummary ==
  /\ vpc = "main"
  /\ Len(ran) = Len(Checks)
  /\ summary' = IF exit_code = 0 THEN "All checks passed" ELSE "Some checks failed"
  /\ vpc' = "summary"
  /\ UNCHANGED <<dependencies, ran, exit_code, verifyStatus>>
  /\ UNCHANGED <<modelsVars, chatVars, deployVars, storeVars, domainVars>>

\* return $exit_code; main is the script's last command
VReturn ==
  /\ vpc = "summary"
  /\ verifyStatus' = exit_code
  /\ vpc' = "exit"
  /\ UNCHANGED <<dependencies, ran, exit_code, summary>>
  /\ UNCHANGED <<modelsVars, chatVars, deployVars, storeVars, domainVars>>

NextVerify == VDependencies \/ VCheck \/ VSummary \/ VReturn

(***************************************************************************)
(* The domain deployment script (deploy-secure.sh, lines 460-519)          *)
(***************************************************************************)

\* for i in {1..10}
MaxAttempts == 10

\* What curl -f -s -I "https://$DOMAIN" can print and grep can see: a
\* status line "HTTP/1.1 200 OK", a 200 status line without the words
\* "200 OK" (HTTP/2 200), or nothing (curl -f fails on a status of 400 and
\* above and on a connection that cannot be made).
CurlOutcomes == {"HTTP/1.1 200 OK", "HTTP/2 200", "failed"}

\* curl ... | grep -q "200 OK"
GrepQuiet200OK(outcome) == outcome = "HTTP/1.1 200 OK"

\* the commands before the loop (kubectl apply, rollout status, the ingress
\* query, the Route53 change) run under set -e: one that fails ends the script
LDeploy ==
  /\ lpc = "start"
  /\ \E ok \in BOOLEAN :
       IF ok THEN lpc' = "loop" /\ attempt' = 1
       ELSE lpc' = "aborted" /\ UNCHANGED attempt
  /\ UNCHANGED <<curls, accessible>>
  /\ UNCHANGED <<modelsVars, chatVars, deployVars, storeVars, verifyVars>>

\* a loop body without the break
LAttemptWithoutBreak ==
  /\ lpc = "loop"
  /\ \E outcome \in CurlOutcomes :
       /\ curls' = Append(curls, outcome)
       /\ accessible' = IF GrepQuiet200OK(outcome) THEN accessible + 1 ELSE accessible
       /\ IF attempt = MaxAttempts
          THEN lpc' = "after" /\ UNCHANGED attempt
          ELSE attempt' = attempt + 1 /\ UNCHANGED lpc
  /\ UNCHANGED <<modelsVars, chatVars, deployVars, storeVars, verifyVars>>

\* one turn of the loop: the test succeeds, the message is printed and break
\* leaves the loop; or "Attempt $i/10 failed" is printed, the script sleeps
\* and the loop goes to the next i, ending after the tenth
LAttempt ==
  /\ lpc = "loop"
  /\ \E outcome \in CurlOutcomes :
       /\ curls' = Append(curls, outcome)
       /\ IF GrepQuiet200OK(outcome)
          THEN /\ accessible' = accessible + 1
               /\ lpc' = "after"
               /\ UNCHANGED attempt
          ELSE /\ UNCHANGED accessible
               /\ IF attempt = MaxAttempts
                  THEN lpc' = "after" /\ UNCHANGED attempt
                  ELSE attempt' = attempt + 1 /\ UNCHANGED lpc
  /\ UNCHANGED <<modelsVars, chatVars, deployVars, storeVars, verifyVars>>

\* echo "Deployment complete! ..." after the loop, whatever the loop found
LComplete ==
  /\ lpc = "after"
  /\ lpc' = "done"
  /\ UNCHANGED <<attempt, curls, accessible>>
  /\ UNCHANGED <<modelsVars, chatVars, deployVars, storeVars, verifyVars>>

NextDomain == LDeploy \/ LAttempt \/ LComplete

(***************************************************************************)
Init ==
  /\ env \in EnvKeys
  /\ mpc = "idle"
  /\ request = NoRequest
  /\ bearer = Undefined
  /\ fetches = 0
  /\ upstream = NoAnswer
  /\ resp = NoResponse
  /\ handled = 0
  /\ previous = NoExchange
  /\ cpc = "idle"
  /\ chat = NoChat
  /\ chatResp = NoChatResponse
  /\ upstreamStream = NoStream
  /\ delivered = <<>>
  /\ dpc = "init"
  /\ argv = <<>>
  /\ flags = InitialFlags
  /\ executed = <<>>
  /\ exitStatus = -1
  /\ store = <<>>
  /\ exportFile = NoFile
  /\ exported = <<>>
  /\ spc = "edited"
  /\ vpc = "init"
  /\ dependencies = "unchecked"
  /\ ran = <<>>
  /\ exit_code = 0
  /\ summary = "none"
  /\ verifyStatus = -1
  /\ lpc = "start"
  /\ attempt = 0
  /\ curls = <<>>
  /\ accessible = 0

Next ==
  NextModels \/ NextChat \/ NextDeploy \/ NextStore \/ NextVerify \/ NextDomain

\* /api/models
Spec == Init /\ [][NextModels]_vars
\* /api/models, successive requests compared by their caller
SpecSuccessive == Init /\ [][NextSuccessive]_vars
\* /api/chat
SpecChat == Init /\ [][NextChat]_vars
\* scripts/deploy-secure.sh
SpecDeploy == Init /\ [][NextDeploy]_vars
\* conversation storage, export and import
SpecStore == Init /\ [][NextStore]_vars
\* scripts/verify-domain.sh
SpecVerify == Init /\ [][NextVerify]_vars
\* the domain deployment script; a command that was started returns, and
\* the shell goes on to the next one
SpecDomain == Init /\ [][NextDomain]_vars /\ WF_vars(NextDomain)

(***************************************************************************)
(* Properties of the /api/models handler (checked under Spec).             *)
(***************************************************************************)
\* the three static fallback models, as the design document lists them
ExpectedFallback ==
  << [id |-> LLAMA_3_1_8B, name |-> Name_LLAMA_3_1_8B, maxLength |-> 120000,
      tokenLimit |-> 131072],
     [id |-> LLAMA_3_3_70B, name |-> Name_LLAMA_3_3_70B, maxLength |-> 120000,
      tokenLimit |-> 131072],
     [id |-> GEMMA2_9B, name |-> Name_GEMMA2_9B, maxLength |-> 24000,
      tokenLimit |-> 8192] >>

Responded == mpc = "responded"

\* the upstream answered 200 with an array (bare, or as the data field)
UpstreamList == upstream.kind = "resp" /\ upstream.status = 200 /\ upstream.body \in {"bare", "wrapped"}

\* every element of the upstream array is an object with a string id
WellFormed(data) == \A i \in 1..Len(data) : data[i].kind = "obj"

UpstreamIds(data) == {data[i].id : i \in {j \in 1..Len(data) : data[j].kind = "obj"}}

ResponseIds == {resp.models[i].id : i \in 1..Len(resp.models)}

\* C1: whenever the upstream call throws (the request body is no JSON, or
\* fetch fails on the network), the handler answers 200 with exactly the
\* static fallback list, in its order and with its fixed values.
C1_FallbackWhenCallThrows ==
  (Responded /\ (~request.parsed \/ upstream.kind = "neterr"))
    => (resp.status = 200 /\ resp.kind = "json" /\ resp.models = ExpectedFallback)

C1_Witness ==
  Responded /\ request.parsed /\ upstream.kind = "neterr" /\ fetches = 1
    /\ resp.models = ExpectedFallback

\* C2 as claimed: for an upstream 200 answer carrying a model list, every
\* returned id is in the upstream list and on the allow-list.
C2_OnlyAllowListed ==
  (Responded /\ UpstreamList /\ WellFormed(upstream.data))
    => ResponseIds \subseteq (UpstreamIds(upstream.data) \cap AllowList)

\* C2 as amended: for an upstream 200 answer carrying a list of objects with
\* string ids, every returned id is in the upstream list, and every returned
\* id is on the allow-list whenever some allow-listed id is in the upstream
\* list (otherwise the returned models are the dynamically discovered ones,
\* whose ids need not be on the allow-list).
C2_FromUpstreamAllowListedWhenAnyIs ==
  (Responded /\ UpstreamList /\ WellFormed(upstream.data))
    => /\ ResponseIds \subseteq UpstreamIds(upstream.data)
       /\ (UpstreamIds(upstream.data) \cap AllowList # {})
            => ResponseIds = UpstreamIds(upstream.data) \cap AllowList

C2_Witness ==
  Responded /\ UpstreamList /\ WellFormed(upstream.data)
    /\ Id_gpt_4o \in UpstreamIds(upstream.data)
    /\ GPT_4 \in ResponseIds /\ Id_gpt_4o \notin ResponseIds

\* C3 as claimed: a 200 answer with an empty list, or with a list holding no
\* allow-listed id, is answered with the three static fallback models.
C3_FallbackWhenNothingUsable ==
  (Responded /\ UpstreamList /\ UpstreamIds(upstream.data) \cap AllowList = {})
    => resp.models = ExpectedFallback

\* C3 as amended: a 200 answer whose list of objects with string ids holds no
\* allow-listed id is answered 200 with the dynamically discovered models:
\* at most DynamicLimit of them, each an upstream id that contains llama,
\* gemma, compound or gpt, none when the list is empty or nothing matches.
\* The static fallback list answers a 200 whose body is unusable: no JSON,
\* no array, or (with no allow-listed id in it) an array holding an element
\* that is null or has no id.
C3_DynamicOrFallback ==
  /\ (Responded /\ UpstreamList /\ WellFormed(upstream.data)
        /\ UpstreamIds(upstream.data) \cap AllowList = {})
       => /\ resp.status = 200 /\ resp.kind = "json"
          /\ Len(resp.models) <= DynamicLimit
          /\ ResponseIds \subseteq
               {id \in UpstreamIds(upstream.data) :
                  \E w \in {Str_llama, Str_gemma, Str_compound, Str_gpt} : includes(id, w)}
          /\ (resp.models = <<>>) <=>
               (\A id \in UpstreamIds(upstream.data) :
                  \A w \in {Str_llama, Str_gemma, Str_compound, Str_gpt} : ~includes(id, w))
  /\ (Responded /\ upstream.kind = "resp" /\ upstream.status = 200
        /\ \/ upstream.body \in {"unparsable", "object"}
           \/ /\ upstream.body \in {"bare", "wrapped"}
              /\ ~WellFormed(upstream.data)
              /\ UpstreamIds(upstream.data) \cap AllowList = {})
       => (resp.status = 200 /\ resp.kind = "json" /\ resp.models = ExpectedFallback)

C3_Witness ==
  Responded /\ UpstreamList /\ upstream.data = <<>> /\ resp.status = 200
    /\ resp.models = <<>>

\* C6: every response with status 200 is a JSON array whose elements have
\* exactly the fields id, name, maxLength and tokenLimit, whichever branch
\* (allow-list match, dynamic discovery, fallback) built it.
C6_FourFields ==
  resp.status = 200
    => /\ resp.kind = "json"
       /\ \A i \in 1..Len(resp.models) :
            DOMAIN resp.models[i] = {"id", "name", "maxLength", "tokenLimit"}

C6_Witness ==
  Responded /\ resp.status = 200 /\ upstream.body = "wrapped"
    /\ Len(resp.models) = 2 /\ ResponseIds \cap AllowList = {}

\* C8: a handled request makes at most one upstream request; after an
\* upstream failure the handler answers without a second attempt.
C8_SingleAttempt ==
  /\ fetches <= 1
  /\ (mpc \in {"fetched", "responded"} /\ request.parsed) => fetches = 1

C8_Witness ==
  Responded /\ upstream.kind = "resp" /\ upstream.status = 500 /\ fetches = 1
    /\ resp.status = 200

MatchPositions(data) == {i \in 1..Len(data) : data[i].kind = "obj" /\ DynamicMatch(data[i].id)}

\* the position in data of its k-th matching element
NthMatch(data, k) ==
  CHOOSE p \in MatchPositions(data) :
    Cardinality({q \in MatchPositions(data) : q <= p}) = k

Min(a, b) == IF a < b THEN a ELSE b

\* C16: the dynamic branch answers only when no allow-listed id is in the
\* upstream list; its answer is the first (at most 5) upstream entries, in
\* upstream order, whose id contains llama, gemma, compound or gpt, each with
\* maxLength 120000 and tokenLimit 131072; no response holds both models of
\* the predefined table and discovered ones.
C16_DynamicBranch ==
  (Responded /\ UpstreamList) =>
    LET data == upstream.data
        models == resp.models
    IN /\ (UpstreamIds(data) \cap AllowList # {})
            => \A i \in 1..Len(models) :
                 models[i].id \in AllowList /\ models[i] = OpenAIModels(models[i].id)
       /\ (UpstreamIds(data) \cap AllowList = {} /\ WellFormed(data))
            => /\ Len(models) = Min(DynamicLimit, Cardinality(MatchPositions(data)))
               /\ \A k \in 1..Len(models) :
                    /\ models[k].id = data[NthMatch(data, k)].id
                    /\ models[k].maxLength = 120000
                    /\ models[k].tokenLimit = 131072
       /\ ~ \E i, j \in 1..Len(models) :
              models[i].id \in AllowList /\ models[j].id \notin AllowList

C16_Witness ==
  /\ Responded /\ UpstreamList
  /\ Cardinality(MatchPositions(upstream.data)) > DynamicLimit
  /\ upstream.data[1].id = Id_llama_guard
  /\ upstream.data[2].id = Id_gpt_4o
  /\ Len(resp.models) = DynamicLimit
  /\ resp.models[1].id = Id_llama_guard
  /\ resp.models[2].id = Id_gpt_4o

\* the key of the request is missing or empty
NoRequestKey == request.key \in {Undefined, ""}

\* C22: the bearer token sent upstream is the request's key whenever that key
\* is non-empty, and the server's OPENAI_API_KEY exactly when the request's
\* key is missing or empty; a request key is never replaced by the
\* environment's.
C22_BearerIsKeyElseEnv ==
  (fetches > 0) =>
    /\ ~NoRequestKey => (bearer = request.key /\ (env # request.key => bearer # env))
    /\ NoRequestKey => bearer = env

C22_Witness ==
  fetches = 1 /\ request.key = "" /\ env = "sk-env" /\ bearer = "sk-env"

C22_WitnessKey ==
  fetches = 1 /\ request.key = "sk-user" /\ env = "sk-env" /\ bearer = "sk-user"

DeclarationIndex(id) == CHOOSE n \in 1..Len(OpenAIModelID) : OpenAIModelID[n] = id

NoNullElement(data) == \A n \in 1..Len(data) : data[n].kind # "null"

\* C23: when an allow-listed id is in the upstream list, the response holds
\* the table entry of each allow-listed id of the list exactly once, in the
\* declaration order of OpenAIModelID, whatever the order of the upstream
\* list and however often an id occurs in it.
C23_PredefinedOnceInDeclarationOrder ==
  (Responded /\ UpstreamList /\ NoNullElement(upstream.data)
     /\ UpstreamIds(upstream.data) \cap AllowList # {})
    => LET models == resp.models
           matched == UpstreamIds(upstream.data) \cap AllowList
       IN /\ resp.status = 200 /\ resp.kind = "json"
          /\ \A id \in matched :
               Cardinality({k \in 1..Len(models) : models[k] = OpenAIModels(id)}) = 1
          /\ \A k \in 1..Len(models) : models[k].id \in matched
          /\ \A j, k \in 1..Len(models) :
               j < k => DeclarationIndex(models[j].id) < DeclarationIndex(models[k].id)

C23_Witness ==
  /\ Responded /\ UpstreamList
  /\ upstream.data = <<ObjEntry(GEMMA2_9B), ObjEntry(GPT_4), ObjEntry(GPT_4)>>
  /\ resp.models = <<OpenAIModels(GPT_4), OpenAIModels(GEMMA2_9B)>>

\* C11: the handler keeps no state between requests: every request whose
\* body parses makes its own upstream query, and a request with the same
\* key as the one before it whose query gets the same answer gets the same
\* response, whatever was handled before.
C11_Stateless ==
  /\ (Responded /\ request.parsed) => fetches = 1
  /\ (Responded /\ previous # NoExchange /\ previous.request = request
        /\ previous.upstream = upstream)
       => resp = previous.resp

C11_Witness ==
  Responded /\ handled = 1 /\ previous.request = request /\ request.parsed
    /\ previous.upstream = upstream /\ upstream.status = 200
    /\ upstream.data = <<ObjEntry(Id_llama_guard)>> /\ fetches = 1
    /\ resp = previous.resp

\* C12: an upstream status that is neither 200 nor 401 is answered with
\* status 200 and the static three-model fallback list, never with an error
\* status.
C12_FallbackOnOtherStatus ==
  (Responded /\ upstream.kind = "resp" /\ upstream.status \notin {200, 401})
    => (resp.status = 200 /\ resp.kind = "json" /\ resp.models = ExpectedFallback)

C12_Witness ==
  Responded /\ upstream.kind = "resp" /\ upstream.status = 429
    /\ resp.status = 200 /\ resp.models = ExpectedFallback

\* C13: an upstream 401 is answered with status 500 carrying the upstream's
\* body and headers, and not with the fallback list.
C13_Unauthorized500 ==
  (Responded /\ upstream.kind = "resp" /\ upstream.status = 401)
    => /\ resp.status = 500
       /\ resp.kind = "upstream"
       /\ resp.raw = upstream.raw
       /\ resp.headers = upstream.headers
       /\ resp.models # ExpectedFallback

C13_Witness ==
  Responded /\ upstream.status = 401 /\ resp.status = 500
    /\ resp.raw = "body-b" /\ resp.headers = "headers-a"

(***************************************************************************)
(* Properties of the chat relay (checked under SpecChat).                  *)
(***************************************************************************)
RECURSIVE SumTokens(_)
SumTokens(ms) == IF ms = <<>> THEN 0 ELSE Head(ms).tokens + SumTokens(Tail(ms))

Trimmed == cpc \in {"forward", "streaming", "responded"}

IsSuffix(kept, all) ==
  Len(kept) <= Len(all) /\ kept = SubSeq(all, Len(all) - Len(kept) + 1, Len(all))

\* C4: when the messages' estimated tokens plus the margin exceed the
\* model's limit, the trimmed list is the input with only its oldest
\* messages dropped: the kept messages are the most recent ones, in the
\* order of the input.
C4_DropsOnlyOldest ==
  (Trimmed /\ SumTokens(chat.messages) + TokenMargin > chat.tokenLimit)
    => IsSuffix(chat.messagesToSend, chat.messages)

C4_Witness ==
  Trimmed /\ SumTokens(chat.messages) + TokenMargin > chat.tokenLimit
    /\ Len(chat.messagesToSend) = 2 /\ Len(chat.messages) = 3

C14_WitnessEmpty ==
  Trimmed /\ chat.messages # <<>> /\ chat.messagesToSend = <<>>

LastN(messages, k) == SubSeq(messages, Len(messages) - k + 1, Len(messages))

\* C15: the kept messages are a contiguous suffix of the input; the scan
\* stops at the first message, counted from the most recent, that does not
\* fit on top of the ones kept, and no older message is kept even if it
\* would fit; the kept suffix is the longest suffix within the limit.
C15_LongestFittingSuffix ==
  Trimmed =>
    LET all == chat.messages
        kept == chat.messagesToSend
        n == Len(all)
        k == Len(kept)
    IN /\ IsSuffix(kept, all)
       /\ k < n => SumTokens(kept) + all[n - k].tokens + TokenMargin
                      > chat.tokenLimit
       /\ \A j \in 0..n :
            SumTokens(LastN(all, j)) + TokenMargin <= chat.tokenLimit => j <= k

C15_Witness ==
  /\ Trimmed
  /\ chat.tokenLimit = 4000
  /\ Len(chat.messages) = 3
  /\ chat.messages[1].tokens = 1000
  /\ chat.messages[2].tokens = 3001
  /\ chat.messages[3].tokens = 1000
  /\ chat.messagesToSend = <<[id |-> 3, tokens |-> 1000]>>

SecurityGates ==
  <<"check_prerequisites", "scan_secrets", "build_secure_image", "scan_image">>

FailedAt(i, steps) == executed[i].step \in steps /\ executed[i].result = "fail"

\* C17: deploy_application is invoked only after check_prerequisites,
\* scan_secrets, build_secure_image and scan_image have each completed
\* successfully, in that order; a secret found by scan_secrets, or a HIGH or
\* CRITICAL vulnerability found by scan_image, ends the script with status 1
\* and no later step runs.
C17_GatesBeforeDeploy ==
  /\ Ran("deploy_application")
       => \A i \in 1..Len(SecurityGates) :
            executed[i] = [step |-> SecurityGates[i], result |-> "ok"]
  /\ \A i \in 1..Len(executed) :
       FailedAt(i, {"scan_secrets", "scan_image"})
         => (i = Len(executed) /\ dpc = "exit" /\ exitStatus = 1)

C17_Witness ==
  /\ dpc = "exit" /\ exitStatus = 1
  /\ Len(executed) = 4
  /\ executed[3] = [step |-> "build_secure_image", result |-> "ok"]
  /\ executed[4] = [step |-> "scan_image", result |-> "fail"]

C17_WitnessDeployed ==
  Ran("deploy_application") /\ executed[4] = [step |-> "scan_image", result |-> "ok"]

\* C20: a failed verify_domain_ssl only warns, and the script goes on with
\* setup_monitoring, setup_argocd and run_smoke_tests; a failed pod or
\* endpoint health check, or a failed smoke test, ends the script with
\* status 1 and display_summary is never reached.
C20_WarnContinuesFailureExits ==
  /\ \A i \in 1..Len(executed) :
       (executed[i] = [step |-> "verify_domain_ssl", result |-> "warn"] /\ dpc = "exit")
         => /\ Len(executed) > i
            /\ executed[i + 1].step \in {"setup_monitoring", "trap"}
            /\ (\A j \in (i + 1)..Len(executed) : executed[j].result = "ok")
                 => /\ Ran("setup_monitoring") /\ Ran("setup_argocd")
                    /\ Ran("run_smoke_tests") /\ Ran("display_summary")
                    /\ exitStatus = 0
  /\ \A i \in 1..Len(executed) :
       FailedAt(i, {"run_health_checks", "run_smoke_tests"})
         => /\ i = Len(executed) /\ dpc = "exit" /\ exitStatus = 1
            /\ ~Ran("display_summary")

C20_Witness ==
  /\ dpc = "exit" /\ exitStatus = 0
  /\ Len(executed) = Len(MainSteps)
  /\ executed[9] = [step |-> "verify_domain_ssl", result |-> "warn"]
  /\ executed[12] = [step |-> "run_smoke_tests", result |-> "ok"]
  /\ Ran("display_summary")

C20_WitnessSmokeFailed ==
  /\ dpc = "exit" /\ exitStatus = 1
  /\ Len(executed) = 12
  /\ executed[9] = [step |-> "verify_domain_ssl", result |-> "warn"]
  /\ executed[Len(executed)] = [step |-> "run_smoke_tests", result |-> "fail"]

\* C18 as claimed: the script prints "All checks passed" and returns 0 only
\* if none of the six checks reported a failure, and returns 1 whenever a
\* check reported its resource missing or unreachable.
C18_PassedOnlyIfNothingReported ==
  LET SomeReported == \E i \in 1..Len(ran) : ran[i].reported
  IN /\ (summary = "All checks passed") => ~SomeReported
     /\ (vpc = "exit" /\ verifyStatus = 0) => ~SomeReported
     /\ (vpc = "exit" /\ SomeReported) => verifyStatus = 1

\* C19: with the dependencies present all six checks run, in the order DNS,
\* SSL, connectivity, ALB, ACM, ingress; a failing check does not keep the
\* later ones from running; exit_code is 1 from the first check that
\* returns non-zero on, and no later success resets it.
C19_AllChecksRunExitCodeSticks ==
  /\ \A i \in 1..Len(ran) : ran[i].check = Checks[i]
  /\ (dependencies = "ok" /\ vpc \in {"summary", "exit"}) => Len(ran) = Len(Checks)
  /\ exit_code = (IF \E i \in 1..Len(ran) : ran[i].ret # 0 THEN 1 ELSE 0)
  /\ (dependencies = "ok" /\ vpc = "exit") => verifyStatus = exit_code

C19_Witness ==
  /\ vpc = "exit" /\ verifyStatus = 1
  /\ Len(ran) = Len(Checks)
  /\ ran[1] = [check |-> "check_dns", reported |-> TRUE, ret |-> 1]
  /\ \A i \in 2..Len(ran) : ran[i].ret = 0 /\ ~ran[i].reported

LoopLeft == lpc \in {"after", "done"}

C21_AttemptsBounded ==
  /\ Len(curls) <= MaxAttempts
  /\ \A k \in 1..Len(curls) : GrepQuiet200OK(curls[k]) => k = Len(curls)
  /\ (Len(curls) > 0 /\ GrepQuiet200OK(curls[Len(curls)])) => LoopLeft
  /\ accessible <= 1
  /\ accessible = 1 <=> \E k \in 1..Len(curls) : GrepQuiet200OK(curls[k])
  /\ (LoopLeft /\ accessible = 0) => Len(curls) = MaxAttempts

\* C21: the domain-access loop makes at most 10 attempts, stops at the first
\* successful one, and always ends, the script with it; the "Domain is
\* accessible" message is printed at most once, and only after a successful
\* attempt.
C21_BoundedLoopTerminates ==
  []C21_AttemptsBounded /\ <>(lpc \in {"done", "aborted"})

C21_Witness ==
  /\ lpc = "done"
  /\ Len(curls) = 3
  /\ curls[1] = "failed" /\ curls[2] = "HTTP/2 200" /\ curls[3] = "HTTP/1.1 200 OK"
  /\ accessible = 1

C21_WitnessExhausted ==
  lpc = "done" /\ Len(curls) = MaxAttempts /\ accessible = 0

\* C7: with --skip-infra deploy_infrastructure is not executed, with
\* --skip-monitoring setup_monitoring is not, with --skip-argocd
\* setup_argocd is not.
C7_SkipOptionsSkip ==
  /\ flags.SKIP_INFRA => ~Ran("deploy_infrastructure")
  /\ flags.SKIP_MONITORING => ~Ran("setup_monitoring")
  /\ flags.SKIP_ARGOCD => ~Ran("setup_argocd")

=============================================================================
